---- MODULE Spec2Model ----
(***************************************************************************)
(* Canvas of skia-safe-metal-leak (src/src/canvas.rs) and the caller loop  *)
(* of its tests (src/src/main.rs), as a state machine.                     *)
(*                                                                         *)
(* Machine integers are scaled down: a u32/i32 of the program is a word of *)
(* Bits bits here (two's complement for i32), a usize is 2*Bits bits, and  *)
(* an f32 keeps MantBits = Bits - 2 significant bits, so that, as with 24  *)
(* of 32 bits, the largest integers are not exactly representable.         *)
(* Option<T> is a sequence of length 0 (None) or 1 (Some).                 *)
(***************************************************************************)
EXTENDS Integers, Sequences, FiniteSets, TLC

\* canvas           Option<Canvas>: the canvas the caller owns
\* ctor             the constructor that built it ("none" before)
\* image            the caller's `image` (main.rs:54): what the last raw draw returned
\* last             the arguments and results of the last call on Canvas
\* pool             handles autoreleased during calls and not yet released
\* overflow_checks  the build's integer overflow checks (on: panic, off: wrap)
\* panicked         a call has panicked: the caller is unwinding
VARIABLES canvas, ctor, image, last, pool, overflow_checks, panicked

vars == <<canvas, ctor, image, last, pool, overflow_checks, panicked>>

\* ------------------------------------------------------------- bounds
Bits == 6
MaxHandles == 1
MaxDraws == 2

\* ---------------------------------------------------------- constants
BytesPerPixel == 4

RECURSIVE Pow2(_)
Pow2(n) == IF n = 0 THEN 1 ELSE 2 * Pow2(n - 1)

MantBits == Bits - 2
Modulus == Pow2(Bits)
UsizeModulus == Pow2(2 * Bits)
MantLimit == Pow2(MantBits)
UMax == Modulus - 1
IMax == Pow2(Bits - 1) - 1
IMin == -IMax - 1
I32 == IMin..IMax

None == <<>>
Some(v) == <<v>>
Abs(n) == IF n < 0 THEN -n ELSE n

\* ------------------------------------------------------- conversions
\* u32 `as i32`: reinterpretation of the bit pattern.
AsI32(u) == IF u > IMax THEN u - Modulus ELSE u

\* i32 `as usize`: sign extension to the pointer width.
AsUsize(i) == IF i < 0 THEN i + UsizeModulus ELSE i

\* the value an i32 sum has after wrapping (overflow checks off).
WrapI32(n) == ((n - IMin) % Modulus) + IMin

\* i32 `as f32`: round to nearest, ties to even, MantBits significant bits.
RECURSIVE Ulp(_, _)
Ulp(a, u) == IF a \div u < MantLimit THEN u ELSE Ulp(a, 2 * u)

AsF32(i) ==
    LET a == Abs(i)
        u == Ulp(a, 1)
        q == a \div u
        r == a % u
        up == (2 * r > u) \/ (2 * r = u /\ q % 2 = 1)
        m == (IF up THEN q + 1 ELSE q) * u
    IN  IF i < 0 THEN -m ELSE m

\* i32 `/`: quotient truncated toward zero (the divisor is not 0 here).
TruncDiv_Mul(a, b) == a * b

TruncDiv(a, b) ==
    LET q == Abs(a) \div Abs(b)
    IN  IF (a < 0) = (b < 0) THEN q ELSE -q

\* ------------------------------------------------------------ inputs
\* the caller's pixel buffers (main.rs:52): one of exactly 10*1*4 bytes, one short
Buffers == { [id |-> 1, len |-> 10 * BytesPerPixel],
             [id |-> 2, len |-> BytesPerPixel] }

\* w, h of a draw_raw_rgb_scale call
RawDims == { <<10, 1>>, <<UMax, 1>> }

\* images a caller can hold that were not built from one of its buffers
OtherImages == { [w |-> 10, h |-> 3, data |-> None],
                 [w |-> IMax, h |-> 1, data |-> None] }

Points == { <<0, 0>>, <<IMax, IMin>> }
Scales == { 0, 1, 2, 11, UMax }

\* width, height of a constructor call
CtorDims == { <<10, 3>>, <<1, IMax>>, <<IMax + 1, 1>>, <<0, 1>> }

Blank ==
    [ op |-> "start", outcome |-> "ok", fault |-> "",
      x |-> 0, y |-> 0, w |-> 0, h |-> 0, scale |-> 0,
      pixels |-> None, image |-> None, used |-> None, ret |-> None,
      built |-> FALSE,
      size |-> <<>>, rect |-> <<>>, issued |-> 0, created |-> 0 ]

\* ------------------------------------------------- external library
\* Surface::new_raster_n32_premul / Surface::new_render_target: no surface for
\* an empty or negative size, or when the allocation fails.
NewSurface(w, h, backing, allocOk) ==
    IF w > 0 /\ h > 0 /\ allocOk
    THEN Some([width |-> w, height |-> h, backing |-> backing,
               color |-> "none", cmds |-> 0])
    ELSE None

\* surface.canvas().clear(color)
Clear(surface, color) == [surface EXCEPT !.color = color]

\* Paint::default() with color, stroke width and blend mode set
DefaultPaint == [color |-> "BLACK", stroke_width |-> 1, blend_mode |-> "SrcOver"]

\* Data::new_bytes(pixels): wraps the slice, no copy
NewBytes(pixels) == [ptr |-> pixels.id, len |-> pixels.len, copied |-> FALSE]

\* Image::from_raster_data(&info, sdata, row_bytes): None unless the size is
\* positive, a row holds w pixels and the data holds h rows; may fail otherwise too.
FromRasterData(info, sdata, row_bytes, libOk) ==
    IF /\ libOk
       /\ info.w > 0 /\ info.h > 0
       /\ row_bytes >= info.w * BytesPerPixel
       /\ sdata.len >= (info.h - 1) * row_bytes + info.w * BytesPerPixel
    THEN Some([w |-> info.w, h |-> info.h, data |-> Some(sdata)])
    ELSE None

\* autoreleasepool(|| ...): handles autoreleased inside the closure are released
\* when the pool is popped, on return and on unwind; what was outstanding stays.
Autoreleasepool_NoPop(outstanding, created) == outstanding + created

Autoreleasepool(outstanding, created) == outstanding

\* -------------------------------------------------------------- Canvas
CpuCanvas(surface, paint) ==
    [surface |-> surface, paint |-> paint, _context |-> None, _backend |-> None]

MetalCanvas_BackendDropped(surface, paint, context, backend) ==
    [surface |-> surface, paint |-> paint,
     _context |-> Some(context), _backend |-> None]

MetalCanvas(surface, paint, context, backend) ==
    [surface |-> surface, paint |-> paint,
     _context |-> Some(context), _backend |-> Some(backend)]

Width(c) == AsUsize(c.surface.width)
Height(c) == AsUsize(c.surface.height)

\* Canvas::new_metal: what the closure returns, or the panic it raises.
NewMetalInternal(width, height, device, ctxOk, allocOk) ==
    IF ~device
    THEN [outcome |-> "none", fault |-> "", canvas |-> None]
    ELSE IF ~ctxOk
    THEN [outcome |-> "panic", fault |-> "unwrap", canvas |-> None]
    ELSE LET surface == NewSurface(AsI32(width), AsI32(height), "gpu", allocOk)
         IN  IF surface = None
             THEN [outcome |-> "none", fault |-> "", canvas |-> None]
             ELSE [outcome |-> "ok", fault |-> "",
                   canvas |-> Some(MetalCanvas(Clear(surface[1], "RED"),
                                               DefaultPaint, "context", "backend"))]

\* Canvas::new
NewInternal(width, height, allocOk) ==
    LET surface == NewSurface(AsI32(width), AsI32(height), "raster", allocOk)
    IN  IF surface = None
        THEN [outcome |-> "panic", fault |-> "expect", canvas |-> None]
        ELSE [outcome |-> "ok", fault |-> "",
              canvas |-> Some(CpuCanvas(Clear(surface[1], "WHITE"), DefaultPaint))]

\* draw_image_scale_internal: the rectangle, the draw command, the result.
DestSize(img, d) == <<TruncDiv(img.w, d), TruncDiv(img.h, d)>>

DrawImageScaleInternal(img, x, y, scale, checks) ==
    LET d == AsI32(scale)
    IN  IF d = 0
        THEN [outcome |-> "panic", fault |-> "div0", size |-> <<>>, rect |-> <<>>,
              issued |-> 0]
        ELSE LET size == DestSize(img, d)
                 right == x + size[1]
                 bottom == y + size[2]
             IN  IF checks /\ (right \notin I32 \/ bottom \notin I32)
                 THEN [outcome |-> "panic", fault |-> "overflow", size |-> size,
                       rect |-> <<>>, issued |-> 0]
                 ELSE [outcome |-> "ok", fault |-> "", size |-> size,
                       rect |-> <<AsF32(x), AsF32(y), AsF32(WrapI32(right)),
                                  AsF32(WrapI32(bottom))>>,
                       issued |-> 1]

\* draw_raw_rgb_scale_internal, first half: the image to draw.
SelectImage_PixelsFirst(w, h, pixels, img, libOk) ==
    LET info == [w |-> AsI32(w), h |-> AsI32(h)]
    IN  IF pixels # None
        THEN [image |-> FromRasterData(info, NewBytes(pixels[1]),
                                       w * BytesPerPixel, libOk),
              built |-> TRUE]
        ELSE [image |-> img, built |-> FALSE]

SelectImage(w, h, pixels, img, libOk) ==
    LET info == [w |-> AsI32(w), h |-> AsI32(h)]
    IN  IF img # None
        THEN [image |-> img, built |-> FALSE]
        ELSE IF pixels # None
        THEN [image |-> FromRasterData(info, NewBytes(pixels[1]),
                                       w * BytesPerPixel, libOk),
              built |-> TRUE]
        ELSE [image |-> None, built |-> FALSE]

\* draw_raw_rgb_scale_internal, second half: the draw and the returned image.
DrawSelected_NoReturn(sel, x, y, scale, checks) ==
    IF sel.image = None
    THEN [outcome |-> "ok", fault |-> "", size |-> <<>>, rect |-> <<>>,
          issued |-> 0, used |-> None, ret |-> None]
    ELSE LET r == DrawImageScaleInternal(sel.image[1], x, y, scale, checks)
         IN  [outcome |-> r.outcome, fault |-> r.fault, size |-> r.size,
              rect |-> r.rect, issued |-> r.issued, used |-> sel.image, ret |-> None]

DrawSelected(sel, x, y, scale, checks) ==
    IF sel.image = None
    THEN [outcome |-> "ok", fault |-> "", size |-> <<>>, rect |-> <<>>,
          issued |-> 0, used |-> None, ret |-> None]
    ELSE LET r == DrawImageScaleInternal(sel.image[1], x, y, scale, checks)
         IN  [outcome |-> r.outcome, fault |-> r.fault, size |-> r.size,
              rect |-> r.rect, issued |-> r.issued, used |-> sel.image,
              ret |-> IF r.outcome = "ok" THEN sel.image ELSE None]

\* ------------------------------------------------------------ actions
Init ==
    /\ canvas = None
    /\ ctor = "none"
    /\ image = None
    /\ last = Blank
    /\ pool = 0
    /\ overflow_checks \in BOOLEAN
    /\ panicked = FALSE

\* let canvas = Canvas::new(width, height)
New ==
    /\ ~panicked /\ canvas = None
    /\ \E dim \in CtorDims, allocOk \in BOOLEAN :
         \E r \in {NewInternal(dim[1], dim[2], allocOk)} :
             /\ canvas' = r.canvas
             /\ ctor' = IF r.outcome = "ok" THEN "new" ELSE ctor
             /\ panicked' = (r.outcome = "panic")
             /\ last' = [Blank EXCEPT !.op = "new", !.outcome = r.outcome,
                                      !.fault = r.fault, !.w = dim[1], !.h = dim[2]]
    /\ UNCHANGED <<image, pool, overflow_checks>>

\* let canvas = Canvas::new_metal(width, height)
NewMetal ==
    /\ ~panicked /\ canvas = None
    /\ \E dim \in CtorDims, device \in BOOLEAN, ctxOk \in BOOLEAN,
          allocOk \in BOOLEAN :
         \E r \in {NewMetalInternal(dim[1], dim[2], device, ctxOk, allocOk)},
            created \in (IF device THEN 0..MaxHandles ELSE {0}) :
             /\ canvas' = r.canvas
             /\ ctor' = IF r.outcome = "ok" THEN "new_metal" ELSE ctor
             /\ panicked' = (r.outcome = "panic")
             /\ pool' = Autoreleasepool(pool, created)
             /\ last' = [Blank EXCEPT !.op = "new_metal", !.outcome = r.outcome,
                                      !.fault = r.fault, !.w = dim[1], !.h = dim[2],
                                      !.created = created]
    /\ UNCHANGED <<image, overflow_checks>>

\* canvas.width(), canvas.height()
Dimensions ==
    /\ ~panicked /\ canvas # None
    /\ last' = [Blank EXCEPT !.op = "width", !.size = <<Width(canvas[1]),
                                                        Height(canvas[1])>>]
    /\ UNCHANGED <<canvas, ctor, image, pool, overflow_checks, panicked>>

\* canvas.draw_image_scale(&img, x, y, scale)
DrawImageScale ==
    /\ ~panicked /\ canvas # None
    /\ canvas[1].surface.cmds < MaxDraws
    /\ \E img \in OtherImages \cup {image[i] : i \in 1..Len(image)},
          pt \in Points, scale \in Scales :
         \E r \in {DrawImageScaleInternal(img, pt[1], pt[2], scale, overflow_checks)} :
         \E created \in (IF r.issued > 0 THEN 0..MaxHandles ELSE {0}) :
             /\ canvas' = [canvas EXCEPT ![1].surface.cmds = @ + r.issued]
             /\ panicked' = (r.outcome = "panic")
             /\ pool' = Autoreleasepool(pool, created)
             /\ last' = [Blank EXCEPT !.op = "draw_image_scale",
                                      !.outcome = r.outcome, !.fault = r.fault,
                                      !.x = pt[1], !.y = pt[2], !.scale = scale,
                                      !.image = Some(img), !.used = Some(img),
                                      !.size = r.size,
                                      !.rect = r.rect, !.issued = r.issued,
                                      !.created = created]
    /\ UNCHANGED <<ctor, image, overflow_checks>>

\* image = canvas.draw_raw_rgb_scale(x, y, w, h, scale, pixels, image)
DrawRawRgbScale ==
    /\ ~panicked /\ canvas # None
    /\ canvas[1].surface.cmds < MaxDraws
    /\ \E pt \in Points, dim \in RawDims, scale \in Scales,
          pixels \in {None} \cup {Some(b) : b \in Buffers},
          img \in {None, image} :
         \E libOk \in (IF img = None /\ pixels # None THEN BOOLEAN ELSE {TRUE}) :
         \E sel \in {SelectImage(dim[1], dim[2], pixels, img, libOk)} :
         \E r \in {DrawSelected(sel, pt[1], pt[2], scale, overflow_checks)} :
         \E n \in (IF sel.built \/ r.issued > 0 THEN 0..MaxHandles ELSE {0}) :
         \E wrapped \in {IF sel.built THEN n ELSE 0} :
         \E drawing \in {IF r.issued > 0 THEN n ELSE 0} :
         \E inner \in {Autoreleasepool(pool + wrapped, drawing)} :
             /\ canvas' = [canvas EXCEPT ![1].surface.cmds = @ + r.issued]
             /\ panicked' = (r.outcome = "panic")
             /\ pool' = Autoreleasepool(pool, inner - pool)
             /\ image' = r.ret
             /\ last' = [Blank EXCEPT !.op = "draw_raw_rgb_scale",
                                      !.outcome = r.outcome, !.fault = r.fault,
                                      !.x = pt[1], !.y = pt[2],
                                      !.w = dim[1], !.h = dim[2], !.scale = scale,
                                      !.pixels = pixels, !.image = img,
                                      !.used = r.used, !.ret = r.ret, !.built = sel.built,
                                      !.size = r.size, !.rect = r.rect,
                                      !.issued = r.issued,
                                      !.created = wrapped + drawing]
    /\ UNCHANGED <<ctor, overflow_checks>>

Next == New \/ NewMetal \/ Dimensions \/ DrawImageScale \/ DrawRawRgbScale

Spec == Init /\ [][Next]_vars

\* ------------------------------------------------------------- claims
IsDraw == last.op \in {"draw_image_scale", "draw_raw_rgb_scale"}

\* the image refers to the bytes of the caller's buffer (wrapped, not copied)
RefersTo(img, buf) ==
    img.data # None /\ ~img.data[1].copied /\ img.data[1].ptr = buf.id

\* C1: a draw call with scale = 0 and an image or a pixel buffer supplied is
\* rejected before the destination size is computed: it does not crash, it
\* divides nothing and it issues no draw.
C1_ScaleZeroRejected ==
    (IsDraw /\ last.scale = 0 /\ (last.image # None \/ last.pixels # None))
        => (last.outcome # "panic" /\ last.size = <<>> /\ last.issued = 0)

C3_NewAlwaysSucceeds ==
    (last.op = "new" /\ last.w > 0 /\ last.h > 0)
        => /\ last.outcome = "ok"
           /\ canvas # None
           /\ canvas[1]._context = None /\ canvas[1]._backend = None
           /\ Width(canvas[1]) = last.w /\ Height(canvas[1]) = last.h

\* C4: Canvas::new_metal never crashes: where construction fails it returns
\* nothing and leaves no canvas.
C4_NewMetalNeverCrashes ==
    last.op = "new_metal"
        => /\ last.outcome \in {"ok", "none"}
           /\ (last.outcome = "none" => canvas = None)

\* C5: a draw_raw_rgb_scale call that returns nothing issued no draw and left
\* the surface as it was; one that returns an image issued exactly one draw,
\* of that image.
C5_Step ==
    (last'.op = "draw_raw_rgb_scale" /\ last'.outcome = "ok")
        => /\ last'.ret = None =>
                (last'.issued = 0 /\ canvas'[1].surface = canvas[1].surface)
           /\ last'.ret # None =>
                /\ last'.issued = 1 /\ last'.used = last'.ret
                /\ canvas'[1].surface.cmds = canvas[1].surface.cmds + 1

\* C5, over every step: a raw draw returns an image iff it issued one draw.
C5_DrawIffReturned == [][C5_Step]_vars

C5_Witness ==
    /\ last.op = "draw_raw_rgb_scale" /\ last.outcome = "ok"
    /\ last.pixels # None /\ last.built /\ last.ret = None
    /\ canvas[1].surface.cmds = 1

\* C6: once draw_raw_rgb_scale has returned, the image handed back does not
\* refer to the caller's pixel buffer.
C6_BufferNotRetained ==
    (last.op = "draw_raw_rgb_scale" /\ last.outcome = "ok" /\ last.pixels # None
     /\ last.ret # None)
        => ~RefersTo(last.ret[1], last.pixels[1])

\* C7: a call that passes the image the previous call returned, with the same
\* x, y and scale, builds no image, draws that image into the same rectangle
\* and returns it again, whatever pixels, w and h are.
C7_Step ==
    (/\ last.op = "draw_raw_rgb_scale" /\ last.outcome = "ok" /\ last.ret # None
     /\ last'.op = "draw_raw_rgb_scale" /\ last'.image = last.ret
     /\ last'.x = last.x /\ last'.y = last.y /\ last'.scale = last.scale)
        => /\ last'.outcome = "ok"
           /\ ~last'.built
           /\ last'.issued = 1 /\ last'.used = last.ret
           /\ last'.rect = last.rect
           /\ last'.ret = last.ret

\* C7, over every pair of consecutive calls: the reuse handshake.
C7_ReuseHandshake == [][C7_Step]_vars

C7_Witness ==
    /\ last.op = "draw_raw_rgb_scale" /\ last.outcome = "ok"
    /\ last.image # None /\ last.pixels # None /\ last.w = UMax
    /\ ~last.built /\ last.ret = last.image /\ last.issued = 1
    /\ canvas[1].surface.cmds = 2

\* the destination size draw_image_scale computes for the drawn image at scale s
SizeAt(s) == DestSize(last.used[1], AsI32(s))

\* C8 (as stated): for scales s1 < s2, s1 >= 1, the destination width and
\* height at s2 are strictly smaller than at s1.
C8_StrictlyDecreasing ==
    (IsDraw /\ last.outcome = "ok" /\ last.issued = 1 /\ last.scale >= 1)
        => \A s \in 1..UMax :
             /\ s > last.scale =>
                  (SizeAt(s)[1] < last.size[1] /\ SizeAt(s)[2] < last.size[2])
             /\ s < last.scale =>
                  (SizeAt(s)[1] > last.size[1] /\ SizeAt(s)[2] > last.size[2])

\* C8 (amended): for scales s1 < s2, s1 >= 1, the destination width and height
\* at s2 are smaller than or equal to those at s1; width 10 at scale 11 is 0.
C8_NonIncreasing ==
    (IsDraw /\ last.outcome = "ok" /\ last.issued = 1 /\ last.scale >= 1)
        => /\ \A s \in 1..UMax :
                /\ s > last.scale =>
                     (SizeAt(s)[1] <= last.size[1] /\ SizeAt(s)[2] <= last.size[2])
                /\ s < last.scale =>
                     (SizeAt(s)[1] >= last.size[1] /\ SizeAt(s)[2] >= last.size[2])
           /\ (last.used[1].w = 10 /\ last.scale = 11) => last.size[1] = 0

C8_Witness ==
    /\ IsDraw /\ last.outcome = "ok" /\ last.issued = 1
    /\ last.used[1].w = 10 /\ last.scale = 11 /\ last.size[1] = 0
    /\ SizeAt(12) = last.size

\* C9: for scale >= 1, draw_image_scale draws into the rectangle with top-left
\* (x, y) and size (floor(w / scale), floor(h / scale)), both non-negative,
\* with right = x + w / scale and bottom = y + h / scale, and does not fault.
C9_RectExact ==
    (IsDraw /\ last.used # None /\ last.scale >= 1)
        => /\ last.outcome = "ok" /\ last.issued = 1
           /\ last.size = <<last.used[1].w \div last.scale,
                            last.used[1].h \div last.scale>>
           /\ last.size[1] >= 0 /\ last.size[2] >= 0
           /\ last.rect = <<last.x, last.y, last.x + last.size[1],
                            last.y + last.size[2]>>

\* C10: the GPU fields are both present or both absent, present exactly when
\* the canvas was built by new_metal, and never change once the canvas exists.
C10_Fields ==
    canvas # None
        => /\ (canvas[1]._context # None) = (canvas[1]._backend # None)
           /\ (canvas[1]._context # None) = (ctor = "new_metal")
           /\ (canvas[1]._context = None) = (ctor = "new")

C10_Step ==
    canvas # None
        => /\ canvas' # None /\ ctor' = ctor
           /\ canvas'[1]._context = canvas[1]._context
           /\ canvas'[1]._backend = canvas[1]._backend
           /\ canvas'[1].surface.backing = canvas[1].surface.backing

\* C10: the GPU fields are present iff built by new_metal, in every state, and
\* no step changes them or the backing of the surface.
C10_GpuFieldsIffMetal == []C10_Fields /\ [][C10_Step]_vars

C10_Witness ==
    /\ canvas # None /\ ctor = "new_metal" /\ canvas[1]._backend # None
    /\ last.op = "draw_raw_rgb_scale" /\ last.issued = 1
    /\ canvas[1].surface.cmds = 2

====
